---- MODULE Spec2Model ----
(***************************************************************************)
(* Client side of a pay-per-write replicated data network:                 *)
(*   - src/client/transfer_actor/balance_management.rs (money transfers,   *)
(*     validation shares, local and network balance);                      *)
(*   - src/client/sequence_apis.rs (Sequence create / append / delete /    *)
(*     owner / permissions / reads through the local replica cache).       *)
(* Each async fn is a chain of atomic steps: one step per lock hold or per *)
(* network send, so the points where another task can run are the .await   *)
(* points of the code.                                                     *)
(***************************************************************************)
EXTENDS Integers, Sequences, FiniteSets, TLC

(***************************************************************************)
(* Bounds of the model                                                     *)
(***************************************************************************)
InitBalance == 2          \* money held locally and on the network at start
MaxAmount == 2            \* send_money amounts are 0..MaxAmount
MaxCalls == 2             \* calls started in one behaviour
MaxEntries == 2           \* entries appended to one sequence
MaxIdx == 2               \* owners / permissions index of one sequence
MaxReads == 1             \* range / last entry reads started in one behaviour

(***************************************************************************)
(* Parameters owned by collaborators                                       *)
(***************************************************************************)
Quorum == 2               \* shares needed to combine a payment proof
WritePrice == 1           \* fixed price of one write

Tasks == {"t1", "t2"}     \* clones of one Client: they share actor and cache
Validators == {1, 2, 3}
Self == "A"               \* the acting identity
Recipients == {"B"}
Section == "S"            \* receiver of write payments
Keys == {"A", "B"}
Addresses == {"priv", "pub"}
Values == {1, 2}
Actions == {"Append", "ManagePermissions"}
PermSets == {{}, {"Append"}, {"Append", "ManagePermissions"}}

IsPrivate(a) == a = "priv"

VARIABLES
    balance,        \* transfer_actor: wallet balance
    debitCounter,   \* transfer_actor: next debit counter (debits registered so far)
    initiated,      \* transfer_actor: transfers marked initiated, not yet registered
    shares,         \* transfer_actor: validation shares recorded, <<transfer, validator>>
    emitted,        \* transfer_actor: transfers whose proof has been produced
    netBalance,     \* network: balance per identity
    netCounter,     \* network: debits of Self registered so far
    netAccepted,    \* network: transfers the validators agreed to validate
    netSeq,         \* network: the stored sequences
    cache,          \* sequence_cache: address -> snapshot
    pc,             \* per task: position in its current call
    call,           \* per task: arguments, locals and result of its current call
    hv,             \* the handle_validation_event call made by the latest step, if any
    proofsFor,      \* transfers for which a handle_validation_event call returned a proof
    calls,          \* number of calls started
    focus,          \* the address the calls of this behaviour work on
    reads,          \* number of range / last entry reads started
    hist            \* the append / set-owner / set-permissions calls that have
                    \* returned: arguments, Ok or not

vars == <<balance, debitCounter, initiated, shares, emitted, netBalance, netCounter,
          netAccepted, netSeq, cache, pc, call, hv, proofsFor, calls, focus,
          reads, hist>>

actorVars == <<balance, debitCounter, initiated, shares, emitted>>
netVars == <<netBalance, netCounter, netAccepted, netSeq>>

(***************************************************************************)
(* Data                                                                    *)
(***************************************************************************)
NoTransfer == [amount |-> 0, to |-> "none", counter |-> 0]

NoSeq == [present |-> FALSE, private |-> FALSE, entries |-> <<>>, owner |-> "none",
          owners_index |-> 0, perms |-> {}, permissions_index |-> 0]

NoEvent == [kind |-> "none", validator |-> 0, transfer |-> NoTransfer,
            conflict |-> FALSE]

\* Sequence::new_private / new_pub followed by set_*_permissions and set_owner
NewSequence(private, owner, perms) ==
    [present |-> TRUE, private |-> private, entries |-> <<>>, owner |-> owner,
     owners_index |-> 1, perms |-> perms, permissions_index |-> 1]

\* Sequence::check_permission: the owner may do anything, others what the
\* current permission set grants them
CheckPermission(s, action, key) == s.owner = key \/ action \in s.perms

SeqAppend(s, e) == [s EXCEPT !.entries = Append(@, e)]
SeqSetOwner(s, k) == [s EXCEPT !.owner = k, !.owners_index = @ + 1]
SeqSetPerms(s, p) == [s EXCEPT !.perms = p, !.permissions_index = @ + 1]

\* the absolute position of a SequenceIndex in a sequence of len entries, -1 when
\* it lies outside
AbsoluteIndex(ix, len) ==
    IF ix.i > len THEN -1 ELSE IF ix.from = "start" THEN ix.i ELSE len - ix.i

\* Sequence::in_range(start, end): the entries from start up to, not including,
\* end; none when the range starts at or after the end of the sequence or is
\* outside it
InRange(s, start, end) ==
    LET len == Len(s.entries)
        x == AbsoluteIndex(start, len)
        y == AbsoluteIndex(end, len)
    IN IF x < 0 \/ y < 0 \/ x >= len \/ y < x
       THEN [some |-> FALSE, entries |-> <<>>]
       ELSE [some |-> TRUE, entries |-> SubSeq(s.entries, x + 1, y)]

\* Sequence::last_entry() and Sequence::entries_index()
LastEntry(s) ==
    IF s.entries = <<>> THEN [some |-> FALSE, entry |-> 0]
    ELSE [some |-> TRUE, entry |-> s.entries[Len(s.entries)]]

EntriesIndex(s) == Len(s.entries)

\* Sequence::owner(index): the owner set by the index-th change of owner; the
\* snapshot keeps the current one, which is the one at owners_index() - 1
OwnerAt(s, index) ==
    IF index >= 0 /\ index = s.owners_index - 1 THEN [some |-> TRUE, owner |-> s.owner]
    ELSE [some |-> FALSE, owner |-> "none"]

\* Sequence::private_permissions(index) / pub_permissions(index): the permission
\* set of that index, for a sequence of that flavor
PermissionsAt(s, private, index) ==
    IF s.private # private THEN [ok |-> FALSE, err |-> "InvalidOperation", perms |-> {}]
    ELSE IF index >= 0 /\ index = s.permissions_index - 1
    THEN [ok |-> TRUE, err |-> "none", perms |-> s.perms]
    ELSE [ok |-> FALSE, err |-> "NoSuchEntry", perms |-> {}]

\* the largest index; it stands for u64::MAX = 2^64 - 1, which is beyond the
\* integers of the model checker, and like it is above every index a sequence holds
WordMax == 2147483647

\* `index - 1` on u64 (lines 563, 668, 688): at index 0 the subtraction overflows,
\* which panics in a build with overflow checks and wraps around without them
Sub1(index) ==
    IF index > 0 THEN {[panic |-> FALSE, index |-> index - 1]}
    ELSE {[panic |-> TRUE, index |-> 0], [panic |-> FALSE, index |-> WordMax]}

Msg(kind, payment) == [kind |-> kind, payment |-> payment]

DataCmds == {"New", "Edit", "Delete", "SetOwner", "SetPrivatePermissions",
             "SetPublicPermissions"}

\* SequenceIndex::FromStart(i) / FromEnd(i)
NoIndex == [from |-> "start", i |-> 0]

IdleCall ==
    [op |-> "none", to |-> Section, amount |-> 0, addr |-> "priv", entry |-> 0,
     owner |-> "none", perms |-> {}, sequence |-> NoSeq, st |-> NoTransfer,
     proof |-> NoTransfer, result |-> "none", sends |-> <<>>,
     range |-> <<NoIndex, NoIndex>>, value |-> <<>>, idx |-> 0,
     pre |-> [balance |-> 0, counter |-> 0, initiated |-> {}, netSelf |-> 0,
              netTo |-> 0, cache |-> NoSeq, netSeq |-> NoSeq],
     chk |-> [reached |-> FALSE, balance |-> 0, pending |-> FALSE]]

(***************************************************************************)
(* The transfer actor (safe_transfers::Actor), as used by the client       *)
(***************************************************************************)
\* actor.transfer(amount, to): one debit at a time, then the balance check
ActorTransfer(amount, to) ==
    IF initiated # {} THEN [ok |-> FALSE, err |-> "PendingDebit", st |-> NoTransfer]
    ELSE IF amount > balance
         THEN [ok |-> FALSE, err |-> "InsufficientBalance", st |-> NoTransfer]
         ELSE [ok |-> TRUE, err |-> "none",
               st |-> [amount |-> amount, to |-> to, counter |-> debitCounter]]

SharesOf(st) == {v \in Validators : <<st, v>> \in shares}

\* actor.receive(validation)
ActorReceive(e) ==
    IF e.transfer \notin initiated \/ e.transfer \in emitted
    THEN [kind |-> "None", err |-> "none", proof |-> FALSE]
    ELSE IF e.validator \in SharesOf(e.transfer)
    THEN [kind |-> "Err", err |-> "Already received validation", proof |-> FALSE]
    ELSE IF e.conflict
    THEN [kind |-> "Err", err |-> "Conflicting transfer", proof |-> FALSE]
    ELSE [kind |-> "Some", err |-> "none",
          proof |-> Cardinality(SharesOf(e.transfer)) + 1 >= Quorum]

\* actor.register(proof): the proof must be for the next debit
ActorRegister(p) == p \in initiated /\ p.counter = debitCounter /\ p.amount <= balance

(***************************************************************************)
(* The network, as seen through connection_manager                         *)
(***************************************************************************)
\* ValidateTransfer: the validators validate one transfer per debit counter
NetValidate(st) ==
    IF /\ st.counter = netCounter
       /\ st.amount <= netBalance[Self]
       /\ \A x \in netAccepted : x.counter # st.counter
    THEN netAccepted \cup {st}
    ELSE netAccepted

NetProofOk(p) == p \in netAccepted /\ p.counter = netCounter /\ p.amount <= netBalance[Self]

\* RegisterTransfer, and the payment part of a paid data command
NetDebit(p) ==
    IF NetProofOk(p)
    THEN [netBalance EXCEPT ![Self] = @ - p.amount, ![p.to] = @ + p.amount]
    ELSE netBalance

NetCount(p) == IF NetProofOk(p) THEN netCounter + 1 ELSE netCounter

\* the data part of a paid data command, applied by the network's replicas
NetApply(kind, a, c) ==
    LET cur == netSeq[a] IN
    CASE kind = "New" ->
            IF cur.present THEN cur ELSE c.sequence
      [] kind = "Edit" ->
            IF cur.present /\ CheckPermission(cur, "Append", Self)
            THEN SeqAppend(cur, c.entry) ELSE cur
      [] kind = "Delete" ->
            IF cur.present /\ IsPrivate(a) /\ cur.owner = Self THEN NoSeq ELSE cur
      [] kind = "SetOwner" ->
            IF cur.present /\ CheckPermission(cur, "ManagePermissions", Self)
            THEN SeqSetOwner(cur, c.owner) ELSE cur
      [] OTHER ->
            IF cur.present /\ CheckPermission(cur, "ManagePermissions", Self)
            THEN SeqSetPerms(cur, c.perms) ELSE cur

NetData(kind, a, c, p) ==
    IF NetProofOk(p) THEN [netSeq EXCEPT ![a] = NetApply(kind, a, c)] ELSE netSeq

(***************************************************************************)
(* Bookkeeping shared by all calls                                         *)
(***************************************************************************)
Actor ==
    [balance |-> balance, debitCounter |-> debitCounter, initiated |-> initiated,
     shares |-> shares, emitted |-> emitted]

SetActor(a) ==
    /\ balance' = a.balance
    /\ debitCounter' = a.debitCounter
    /\ initiated' = a.initiated
    /\ shares' = a.shares
    /\ emitted' = a.emitted

NoHv == [called |-> FALSE, dup |-> FALSE, closed |-> FALSE, after |-> FALSE,
         ret |-> "none", same |-> TRUE]

Snapshot(to, a) ==
    [balance |-> balance, counter |-> debitCounter, initiated |-> initiated,
     netSelf |-> netBalance[Self], netTo |-> netBalance[to],
     cache |-> cache[a], netSeq |-> netSeq[a]]

\* a task starts a call: its arguments are recorded with the state it starts from
Begin(t, c, first) ==
    /\ pc[t] \in {"idle", "done"}
    /\ calls < MaxCalls
    /\ calls' = calls + 1
    /\ UNCHANGED <<reads, hist>>
    /\ focus' = focus
    /\ call' = [call EXCEPT ![t] = [c EXCEPT !.pre = Snapshot(c.to, c.addr)]]
    /\ pc' = [pc EXCEPT ![t] = first]
    /\ hv' = NoHv

\* the call returns r
Finish(t, c, r) ==
    /\ call' = [call EXCEPT ![t] = [c EXCEPT !.result = r]]
    /\ pc' = [pc EXCEPT ![t] = "done"]
    /\ reads' = reads
    /\ hist' = IF c.op \in {"append_to_sequence", "sequence_set_owner",
                             "sequence_set_private_permissions",
                             "sequence_set_pub_permissions"}
               THEN Append(hist, [op |-> c.op, entry |-> c.entry, owner |-> c.owner,
                                  perms |-> c.perms, ok |-> r = "Ok"])
               ELSE hist

Goto(t, c, next) ==
    /\ call' = [call EXCEPT ![t] = c]
    /\ pc' = [pc EXCEPT ![t] = next]
    /\ UNCHANGED <<reads, hist>>

\* the call panics: its task unwinds and makes no further call
Panic(t, c) ==
    /\ call' = [call EXCEPT ![t] = [c EXCEPT !.result = "panic"]]
    /\ pc' = [pc EXCEPT ![t] = "panicked"]
    /\ UNCHANGED <<reads, hist>>

Sent(c, kind, payment) == [c EXCEPT !.sends = Append(@, Msg(kind, payment))]

(***************************************************************************)
(* balance_management.rs                                                   *)
(***************************************************************************)
\* get_local_balance
get_local_balance == balance

\* get_balance_from_network(None), when the query is answered
get_balance_from_network == netBalance[Self]

\* actor.apply(TransferValidationReceived): record the share, close on proof
ApplyValidationReceived(a, e, proof) ==
    [a EXCEPT !.shares = @ \cup {<<e.transfer, e.validator>>},
              !.emitted = IF proof THEN @ \cup {e.transfer} ELSE @]

\* handle_validation_event that returns every error of actor.receive, the
\* "Already received validation" one included
HandleValidationEvent_PropagatesDup(e) ==
    IF e.kind # "TransferValidated"
    THEN [ret |-> "Err", err |-> "Unexpected event", actor |-> Actor]
    ELSE LET r == ActorReceive(e) IN
         CASE r.kind = "Some" ->
                [ret |-> IF r.proof THEN "Proof" ELSE "None", err |-> "none",
                 actor |-> ApplyValidationReceived(Actor, e, r.proof)]
           [] r.kind = "None" ->
                [ret |-> "None", err |-> "none", actor |-> Actor]
           [] OTHER ->
                [ret |-> "Err", err |-> r.err, actor |-> Actor]

\* handle_validation_event that returns a proof without applying the
\* TransferValidationReceived event that carries it
HandleValidationEvent_NoApplyOnProof(e) ==
    IF e.kind # "TransferValidated"
    THEN [ret |-> "Err", err |-> "Unexpected event", actor |-> Actor]
    ELSE LET r == ActorReceive(e) IN
         CASE r.kind = "Some" ->
                [ret |-> IF r.proof THEN "Proof" ELSE "None", err |-> "none",
                 actor |-> IF r.proof THEN Actor
                           ELSE ApplyValidationReceived(Actor, e, r.proof)]
           [] r.kind = "None" ->
                [ret |-> "None", err |-> "none", actor |-> Actor]
           [] OTHER ->
                IF r.err = "Already received validation"
                THEN [ret |-> "None", err |-> "none", actor |-> Actor]
                ELSE [ret |-> "Err", err |-> r.err, actor |-> Actor]

\* handle_validation_event that reports a share the actor has no use for as an error
HandleValidationEvent_ErrOnNone(e) ==
    IF e.kind # "TransferValidated"
    THEN [ret |-> "Err", err |-> "Unexpected event", actor |-> Actor]
    ELSE LET r == ActorReceive(e) IN
         CASE r.kind = "Some" ->
                [ret |-> IF r.proof THEN "Proof" ELSE "None", err |-> "none",
                 actor |-> ApplyValidationReceived(Actor, e, r.proof)]
           [] r.kind = "None" ->
                [ret |-> "Err", err |-> "No such transfer", actor |-> Actor]
           [] OTHER ->
                IF r.err = "Already received validation"
                THEN [ret |-> "None", err |-> "none", actor |-> Actor]
                ELSE [ret |-> "Err", err |-> r.err, actor |-> Actor]

\* handle_validation_event(event): what it returns, and the actor it leaves
HandleValidationEvent(e) ==
    IF e.kind # "TransferValidated"
    THEN [ret |-> "Err", err |-> "Unexpected event", actor |-> Actor]
    ELSE LET r == ActorReceive(e) IN
         CASE r.kind = "Some" ->
                [ret |-> IF r.proof THEN "Proof" ELSE "None", err |-> "none",
                 actor |-> ApplyValidationReceived(Actor, e, r.proof)]
           [] r.kind = "None" ->
                [ret |-> "None", err |-> "none", actor |-> Actor]
           [] OTHER ->
                IF r.err = "Already received validation"
                THEN [ret |-> "None", err |-> "none", actor |-> Actor]
                ELSE [ret |-> "Err", err |-> r.err, actor |-> Actor]

\* send_money(to, amount), entry
StartSendMoney(t) ==
    \E to \in Recipients, amount \in 0..MaxAmount :
        /\ Begin(t, [IdleCall EXCEPT !.op = "send_money", !.to = to, !.amount = amount],
                 "sm_history")
        /\ UNCHANGED <<actorVars, netVars, cache, proofsFor>>

\* send_money line 126: self.get_history().await?
SmGetHistory(t) ==
    /\ pc[t] = "sm_history"
    /\ \E ok \in BOOLEAN :
        LET c == Sent(call[t], "GetHistory", NoTransfer) IN
        IF ok THEN Goto(t, c, "sm_transfer") ELSE Finish(t, c, "NetworkError")
    /\ UNCHANGED <<actorVars, netVars, cache, proofsFor, calls, focus>>
    /\ hv' = NoHv

\* send_money that goes on with a transfer although actor.transfer failed
SmTransfer_IgnoresError(t) ==
    /\ pc[t] = "sm_transfer"
    /\ LET c == [call[t] EXCEPT !.chk = [reached |-> TRUE, balance |-> balance,
                                         pending |-> initiated # {}]]
       IN Goto(t, [c EXCEPT !.st = [amount |-> c.amount, to |-> c.to,
                                    counter |-> debitCounter]], "sm_initiate")
    /\ UNCHANGED <<actorVars, netVars, cache, proofsFor, calls, focus>>
    /\ hv' = NoHv

\* send_money that turns a zero amount down before asking the actor
SmTransfer_RejectsZero(t) ==
    /\ pc[t] = "sm_transfer"
    /\ LET r == ActorTransfer(call[t].amount, call[t].to)
           c == [call[t] EXCEPT !.chk = [reached |-> TRUE, balance |-> balance,
                                         pending |-> initiated # {}]]
       IN IF call[t].amount = 0 THEN Finish(t, c, "InvalidOperation")
          ELSE IF r.ok
          THEN Goto(t, [c EXCEPT !.st = r.st], "sm_initiate")
          ELSE Finish(t, c, r.err)
    /\ UNCHANGED <<actorVars, netVars, cache, proofsFor, calls, focus>>
    /\ hv' = NoHv

\* send_money lines 133-139: lock, actor.transfer(amount, to)?, unlock
SmTransfer(t) ==
    /\ pc[t] = "sm_transfer"
    /\ LET r == ActorTransfer(call[t].amount, call[t].to)
           c == [call[t] EXCEPT !.chk = [reached |-> TRUE, balance |-> balance,
                                         pending |-> initiated # {}]]
       IN IF r.ok
          THEN Goto(t, [c EXCEPT !.st = r.st], "sm_initiate")
          ELSE Finish(t, c, r.err)
    /\ UNCHANGED <<actorVars, netVars, cache, proofsFor, calls, focus>>
    /\ hv' = NoHv

\* send_money that goes on to validation without marking the transfer initiated
SmInitiate_NoMark(t) ==
    /\ pc[t] = "sm_initiate"
    /\ Goto(t, call[t], "av_send")
    /\ UNCHANGED <<actorVars, netVars, cache, proofsFor, calls, focus>>
    /\ hv' = NoHv

\* send_money lines 149-154: lock, actor.apply(TransferInitiated), unlock
SmInitiate(t) ==
    /\ pc[t] = "sm_initiate"
    /\ initiated' = initiated \cup {call[t].st}
    /\ Goto(t, call[t], "av_send")
    /\ UNCHANGED <<balance, debitCounter, shares, emitted, netVars, cache,
                   proofsFor, calls, focus>>
    /\ hv' = NoHv

\* await_validation: broadcast the ValidateTransfer command
AvSend(t) ==
    /\ pc[t] = "av_send"
    /\ \E ok \in BOOLEAN :
        LET c == Sent(call[t], "ValidateTransfer", call[t].st) IN
        IF ok
        THEN /\ netAccepted' = NetValidate(call[t].st)
             /\ Goto(t, c, "av_wait")
        ELSE /\ netAccepted' = netAccepted
             /\ Finish(t, c, "NetworkError")
    /\ UNCHANGED <<actorVars, netBalance, netCounter, netSeq, cache, proofsFor,
                   calls, focus>>
    /\ hv' = NoHv

\* events the network can deliver to a waiting task: shares of the transfers the
\* validators accepted (repeated, late or conflicting ones too), a share of a
\* transfer this actor never initiated, and other events.
\* Validators are interchangeable, so the first shares of a transfer are taken in
\* the order of the validators' indices.
InOrder(v, x) ==
    \/ x \notin initiated
    \/ x \in emitted
    \/ v \in SharesOf(x)
    \/ \A w \in Validators \ SharesOf(x) : v <= w

Events ==
    {e \in [kind : {"TransferValidated"}, validator : Validators,
            transfer : netAccepted, conflict : BOOLEAN] :
        InOrder(e.validator, e.transfer)}
    \cup {[NoEvent EXCEPT !.kind = "TransferValidated", !.validator = 1]}
    \cup {[NoEvent EXCEPT !.kind = "Other"]}

AfterProof(op) == IF op = "send_money" THEN "sm_register_send" ELSE "w_send"

\* handle_validation_event that releases the actor lock between actor.receive and
\* the apply of TransferValidationReceived: the validation waits in the call while
\* other tasks work on the actor
AvEvent_SplitLock(t) ==
    \/ /\ pc[t] = "av_wait"
       /\ \E e \in Events :
           LET r == ActorReceive(e) IN
           IF e.kind # "TransferValidated" THEN Finish(t, call[t], "Unexpected event")
           ELSE IF r.kind = "Some"
           THEN Goto(t, [call[t] EXCEPT !.value = <<e, r.proof>>], "av_apply")
           ELSE IF r.kind = "None" \/ r.err = "Already received validation"
           THEN UNCHANGED <<pc, call, reads, hist>>
           ELSE Finish(t, call[t], r.err)
       /\ hv' = NoHv
       /\ UNCHANGED <<actorVars, netVars, cache, proofsFor, calls, focus>>
    \/ /\ pc[t] = "av_apply"
       /\ LET e == call[t].value[1]
              proof == call[t].value[2]
              c == [call[t] EXCEPT !.value = <<>>]
          IN /\ SetActor(ApplyValidationReceived(Actor, e, proof))
             /\ hv' = [NoHv EXCEPT !.called = TRUE,
                                   !.ret = IF proof THEN "Proof" ELSE "None",
                                   !.same = ApplyValidationReceived(Actor, e, proof) = Actor]
             /\ proofsFor' = IF proof THEN proofsFor \cup {e.transfer} ELSE proofsFor
             /\ IF proof /\ e.transfer = call[t].st
                THEN Goto(t, [c EXCEPT !.proof = e.transfer], AfterProof(call[t].op))
                ELSE Goto(t, c, "av_wait")
       /\ UNCHANGED <<netVars, cache, calls, focus>>

\* await_validation: one event is handed to handle_validation_event (lines 37-69)
AvEvent(t) ==
    /\ pc[t] = "av_wait"
    /\ \E e \in Events :
        LET h == HandleValidationEvent(e) IN
        /\ SetActor(h.actor)
        /\ hv' = [called |-> TRUE,
                  dup |-> e.kind = "TransferValidated" /\ e.validator \in SharesOf(e.transfer),
                  closed |-> e.kind = "TransferValidated"
                             /\ (e.transfer \notin initiated \/ e.transfer \in emitted),
                  after |-> e.kind = "TransferValidated" /\ e.transfer \in proofsFor,
                  ret |-> h.ret,
                  same |-> h.actor = Actor]
        /\ proofsFor' = IF h.ret = "Proof" THEN proofsFor \cup {e.transfer} ELSE proofsFor
        /\ IF h.ret = "Err" THEN Finish(t, call[t], h.err)
           ELSE IF h.ret = "Proof" /\ e.transfer = call[t].st
           THEN Goto(t, [call[t] EXCEPT !.proof = e.transfer], AfterProof(call[t].op))
           ELSE UNCHANGED <<pc, call, reads, hist>>
    /\ UNCHANGED <<netVars, cache, calls, focus>>

\* await_validation: no quorum arrived in time
AvTimeout(t) ==
    /\ pc[t] = "av_wait"
    /\ Finish(t, call[t], "ValidationTimeout")
    /\ UNCHANGED <<actorVars, netVars, cache, proofsFor, calls, focus>>
    /\ hv' = NoHv

\* actor.apply(TransferRegistrationSent): the debit is applied to the wallet
ApplyRegistrationSent(a, p) ==
    [a EXCEPT !.balance = @ - p.amount,
              !.debitCounter = @ + 1,
              !.initiated = @ \ {p},
              !.shares = {x \in @ : x[1] # p}]

\* send_money that registers the debit with the local actor before the
\* RegisterTransfer command is sent
SmRegisterSend_RegistersFirst(t) ==
    /\ pc[t] = "sm_register_send"
    /\ SetActor(ApplyRegistrationSent(Actor, call[t].proof))
    /\ \E ok \in BOOLEAN :
        LET c == Sent(call[t], "RegisterTransfer", call[t].proof) IN
        IF ok
        THEN /\ netBalance' = NetDebit(call[t].proof)
             /\ netCounter' = NetCount(call[t].proof)
             /\ Finish(t, c, "Ok")
        ELSE /\ UNCHANGED <<netBalance, netCounter>>
             /\ Finish(t, c, "NetworkError")
    /\ UNCHANGED <<netAccepted, netSeq, cache, proofsFor, calls, focus>>
    /\ hv' = NoHv

\* send_money that goes on to the local registration although the RegisterTransfer
\* send failed
SmRegisterSend_IgnoresSendError(t) ==
    /\ pc[t] = "sm_register_send"
    /\ \E ok \in BOOLEAN :
        LET c == Sent(call[t], "RegisterTransfer", call[t].proof) IN
        IF ok
        THEN /\ netBalance' = NetDebit(call[t].proof)
             /\ netCounter' = NetCount(call[t].proof)
             /\ Goto(t, c, "sm_register")
        ELSE /\ UNCHANGED <<netBalance, netCounter>>
             /\ Goto(t, c, "sm_register")
    /\ UNCHANGED <<actorVars, netAccepted, netSeq, cache, proofsFor, calls, focus>>
    /\ hv' = NoHv

\* send_money lines 161-169: send the RegisterTransfer command
SmRegisterSend(t) ==
    /\ pc[t] = "sm_register_send"
    /\ \E ok \in BOOLEAN :
        LET c == Sent(call[t], "RegisterTransfer", call[t].proof) IN
        IF ok
        THEN /\ netBalance' = NetDebit(call[t].proof)
             /\ netCounter' = NetCount(call[t].proof)
             /\ Goto(t, c, "sm_register")
        ELSE /\ UNCHANGED <<netBalance, netCounter>>
             /\ Finish(t, c, "NetworkError")
    /\ UNCHANGED <<actorVars, netAccepted, netSeq, cache, proofsFor, calls, focus>>
    /\ hv' = NoHv

\* send_money that returns Ok(()) without applying the registration event
SmRegister_OkWithoutApply(t) ==
    /\ pc[t] = "sm_register"
    /\ Finish(t, call[t], IF ActorRegister(call[t].proof) THEN "Ok" ELSE "RegisterError")
    /\ UNCHANGED <<actorVars, netVars, cache, proofsFor, calls, focus>>
    /\ hv' = NoHv

\* send_money whose registration moves the debit counter past the next value
SmRegister_SkipsCounter(t) ==
    /\ pc[t] = "sm_register"
    /\ IF ActorRegister(call[t].proof)
       THEN /\ SetActor([ApplyRegistrationSent(Actor, call[t].proof)
                            EXCEPT !.debitCounter = @ + 1])
            /\ Finish(t, call[t], "Ok")
       ELSE /\ UNCHANGED actorVars
            /\ Finish(t, call[t], "RegisterError")
    /\ UNCHANGED <<netVars, cache, proofsFor, calls, focus>>
    /\ hv' = NoHv

\* send_money that applies the registration event to the actor twice
SmRegister_AppliesTwice(t) ==
    /\ pc[t] = "sm_register"
    /\ IF ActorRegister(call[t].proof)
       THEN /\ SetActor(ApplyRegistrationSent(ApplyRegistrationSent(Actor, call[t].proof),
                                              call[t].proof))
            /\ Finish(t, call[t], "Ok")
       ELSE /\ UNCHANGED actorVars
            /\ Finish(t, call[t], "RegisterError")
    /\ UNCHANGED <<netVars, cache, proofsFor, calls, focus>>
    /\ hv' = NoHv

\* send_money lines 171-179: lock, actor.register(proof)?, apply, Ok(())
SmRegister(t) ==
    /\ pc[t] = "sm_register"
    /\ IF ActorRegister(call[t].proof)
       THEN /\ SetActor(ApplyRegistrationSent(Actor, call[t].proof))
            /\ Finish(t, call[t], "Ok")
       ELSE /\ UNCHANGED actorVars
            /\ Finish(t, call[t], "RegisterError")
    /\ UNCHANGED <<netVars, cache, proofsFor, calls, focus>>
    /\ hv' = NoHv

send_money(t) ==
    \/ StartSendMoney(t)
    \/ SmGetHistory(t)
    \/ SmTransfer(t)
    \/ SmInitiate(t)
    \/ SmRegisterSend(t)
    \/ SmRegister(t)

await_validation(t) ==
    \/ AvSend(t)
    \/ AvEvent(t)
    \/ AvTimeout(t)

(***************************************************************************)
(* sequence_apis.rs                                                        *)
(***************************************************************************)
\* wrap_seq_write(write, payment): the command carries the payment proof
wrap_seq_write(kind, payment) == Msg(kind, payment)

\* the SequenceWrite each mutation sends
CmdKind(op) ==
    CASE op = "store_private_sequence" -> "New"
      [] op = "store_public_sequence" -> "New"
      [] op = "delete_sequence" -> "Delete"
      [] op = "append_to_sequence" -> "Edit"
      [] op = "sequence_set_owner" -> "SetOwner"
      [] op = "sequence_set_private_permissions" -> "SetPrivatePermissions"
      [] OTHER -> "SetPublicPermissions"

\* where a call goes once get_sequence has resolved the address
AfterGet(op) ==
    CASE op = "get_sequence" -> "done"
      [] op = "append_to_sequence" -> "app_check"
      [] op = "sequence_set_owner" -> "own_check"
      [] op = "get_sequence_range" -> "range_read"
      [] op = "get_sequence_last_entry" -> "last_read"
      [] op = "get_sequence_owner" -> "owner_read"
      [] op = "get_sequence_private_permissions" -> "perms_read"
      [] op = "get_sequence_pub_permissions" -> "perms_read"
      [] OTHER -> "perm_check"

SeqCall(op, a) == [IdleCall EXCEPT !.op = op, !.addr = a, !.to = Section,
                                   !.amount = WritePrice]

\* sequence_cache.put(address, sequence)
CachePut(a, s) == [cache EXCEPT ![a] = s]

\* store_*_sequence that sends the sequence before its owner is set
StartStore_NoOwner(t) ==
    \E a \in {focus}, private \in {IsPrivate(focus)}, owner \in Keys, perms \in PermSets :
        /\ Begin(t, [SeqCall(IF private THEN "store_private_sequence"
                                        ELSE "store_public_sequence", a)
                        EXCEPT !.owner = owner, !.perms = perms,
                               !.sequence = [NewSequence(private, Self, perms)
                                                EXCEPT !.owners_index = 0]],
                 "wp_transfer")
        /\ UNCHANGED <<actorVars, netVars, cache, proofsFor>>

\* store_*_sequence that puts the new sequence in the cache before it is paid for
\* and sent
StartStore_PutsFirst(t) ==
    \E a \in {focus}, private \in {IsPrivate(focus)}, owner \in Keys, perms \in PermSets :
        /\ Begin(t, [SeqCall(IF private THEN "store_private_sequence"
                                        ELSE "store_public_sequence", a)
                        EXCEPT !.owner = owner, !.perms = perms,
                               !.sequence = NewSequence(private, owner, perms)],
                 "wp_transfer")
        /\ cache' = CachePut(a, NewSequence(private, owner, perms))
        /\ UNCHANGED <<actorVars, netVars, proofsFor>>

\* store_private_sequence / store_public_sequence lines 75-96, 141-161: the
\* sequence is built (new_private / new_public) with its permissions and owner,
\* its address is the address of that data; then it is paid for and sent
StartStore(t) ==
    \E a \in {focus}, private \in {IsPrivate(focus)}, owner \in Keys, perms \in PermSets :
        /\ Begin(t, [SeqCall(IF private THEN "store_private_sequence"
                                        ELSE "store_public_sequence", a)
                        EXCEPT !.owner = owner, !.perms = perms,
                               !.sequence = NewSequence(private, owner, perms)],
                 "wp_transfer")
        /\ UNCHANGED <<actorVars, netVars, cache, proofsFor>>

\* store_*_sequence lines 98-101, 163-166: after the write, put in the cache
StorePut(t) ==
    /\ pc[t] = "store_put"
    /\ cache' = CachePut(call[t].addr, call[t].sequence)
    /\ Finish(t, call[t], "Ok")
    /\ UNCHANGED <<actorVars, netVars, proofsFor, calls, focus>>
    /\ hv' = NoHv

\* delete_sequence that sends the command without paying first
StartDelete_NoPayment(t) ==
    \E a \in {focus} :
        /\ Begin(t, SeqCall("delete_sequence", a), "w_send")
        /\ UNCHANGED <<actorVars, netVars, cache, proofsFor>>

\* delete_sequence that drops the cache entry of the address, whatever its flavor
StartDelete_EvictsCache(t) ==
    \E a \in {focus} :
        /\ Begin(t, SeqCall("delete_sequence", a), "wp_transfer")
        /\ cache' = CachePut(a, NoSeq)
        /\ UNCHANGED <<actorVars, netVars, proofsFor>>

\* delete_sequence lines 204-208: payment first; the cache is not touched here nor
\* in any later step of the call
StartDelete(t) ==
    \E a \in {focus} :
        /\ Begin(t, SeqCall("delete_sequence", a), "wp_transfer")
        /\ UNCHANGED <<actorVars, netVars, cache, proofsFor>>

\* get_sequence, entry
StartGetSequence(t) ==
    \E a \in {focus} :
        /\ Begin(t, SeqCall("get_sequence", a), "gs_lookup")
        /\ UNCHANGED <<actorVars, netVars, cache, proofsFor>>

\* get_sequence that queries the network whether or not the replica holds the address
GsLookup_AlwaysFetch(t) ==
    /\ pc[t] = "gs_lookup"
    /\ Goto(t, call[t], "gs_fetch")
    /\ UNCHANGED <<actorVars, netVars, cache, proofsFor, calls, focus>>
    /\ hv' = NoHv

\* get_sequence lines 362-365: the local replica, when it holds the address
GsLookup(t) ==
    /\ pc[t] = "gs_lookup"
    /\ IF cache[call[t].addr].present
       THEN LET c == [call[t] EXCEPT !.sequence = cache[call[t].addr]] IN
            IF AfterGet(c.op) = "done" THEN Finish(t, c, "Ok")
            ELSE Goto(t, c, AfterGet(c.op))
       ELSE Goto(t, call[t], "gs_fetch")
    /\ UNCHANGED <<actorVars, netVars, cache, proofsFor, calls, focus>>
    /\ hv' = NoHv

\* get_sequence that asks the network again when the query fails in transport
GsFetch_RetriesOnTransport(t) ==
    /\ pc[t] = "gs_fetch"
    /\ \E answer \in {"sequence", "transport", "other"} :
        LET a == call[t].addr
            c == Sent(call[t], "GetSequence", NoTransfer)
        IN CASE answer = "transport" ->
                    /\ IF Len(c.sends) < 2 THEN Goto(t, c, "gs_fetch")
                       ELSE Finish(t, c, "NetworkError")
                    /\ UNCHANGED cache
             [] answer = "other" ->
                    /\ Finish(t, c, "ReceivedUnexpectedEvent")
                    /\ UNCHANGED cache
             [] OTHER ->
                    IF netSeq[a].present
                    THEN /\ cache' = CachePut(a, netSeq[a])
                         /\ LET d == [c EXCEPT !.sequence = netSeq[a]] IN
                            IF AfterGet(d.op) = "done" THEN Finish(t, d, "Ok")
                            ELSE Goto(t, d, AfterGet(d.op))
                    ELSE /\ Finish(t, c, "NoSuchData")
                         /\ UNCHANGED cache
    /\ UNCHANGED <<actorVars, netVars, proofsFor, calls, focus>>
    /\ hv' = NoHv

\* get_sequence lines 369-385: fetch from the network, store in the cache
GsFetch(t) ==
    /\ pc[t] = "gs_fetch"
    /\ \E answer \in {"sequence", "transport", "other"} :
        LET a == call[t].addr
            c == Sent(call[t], "GetSequence", NoTransfer)
        IN CASE answer = "transport" ->
                    /\ Finish(t, c, "NetworkError")
                    /\ UNCHANGED cache
             [] answer = "other" ->
                    /\ Finish(t, c, "ReceivedUnexpectedEvent")
                    /\ UNCHANGED cache
             [] OTHER ->
                    IF netSeq[a].present
                    THEN /\ cache' = CachePut(a, netSeq[a])
                         /\ LET d == [c EXCEPT !.sequence = netSeq[a]] IN
                            IF AfterGet(d.op) = "done" THEN Finish(t, d, "Ok")
                            ELSE Goto(t, d, AfterGet(d.op))
                    ELSE /\ Finish(t, c, "NoSuchData")
                         /\ UNCHANGED cache
    /\ UNCHANGED <<actorVars, netVars, proofsFor, calls, focus>>
    /\ hv' = NoHv

\* append_to_sequence, entry (line 259 is get_sequence)
StartAppend(t) ==
    \E a \in {focus}, e \in Values :
        /\ Len(cache[a].entries) < MaxEntries
        /\ Len(netSeq[a].entries) < MaxEntries
        /\ Begin(t, [SeqCall("append_to_sequence", a) EXCEPT !.entry = e], "gs_lookup")
        /\ UNCHANGED <<actorVars, netVars, cache, proofsFor>>

\* append_to_sequence without the permission check of line 264
AppCheck_NoCheck(t) ==
    /\ pc[t] = "app_check"
    /\ LET s == SeqAppend(call[t].sequence, call[t].entry) IN
       /\ cache' = CachePut(call[t].addr, s)
       /\ Goto(t, [call[t] EXCEPT !.sequence = s], "wp_transfer")
    /\ UNCHANGED <<actorVars, netVars, proofsFor, calls, focus>>
    /\ hv' = NoHv

\* append_to_sequence that goes on to pay without putting the new snapshot in the
\* cache
AppCheck_NoCachePut(t) ==
    /\ pc[t] = "app_check"
    /\ IF CheckPermission(call[t].sequence, "Append", Self)
       THEN LET s == SeqAppend(call[t].sequence, call[t].entry) IN
            Goto(t, [call[t] EXCEPT !.sequence = s], "wp_transfer")
       ELSE Finish(t, call[t], "AccessDenied")
    /\ UNCHANGED <<actorVars, netVars, cache, proofsFor, calls, focus>>
    /\ hv' = NoHv

\* append_to_sequence lines 264-276: permission check, append, cache put, then pay
AppCheck(t) ==
    /\ pc[t] = "app_check"
    /\ IF CheckPermission(call[t].sequence, "Append", Self)
       THEN LET s == SeqAppend(call[t].sequence, call[t].entry) IN
            /\ cache' = CachePut(call[t].addr, s)
            /\ Goto(t, [call[t] EXCEPT !.sequence = s], "wp_transfer")
       ELSE /\ UNCHANGED cache
            /\ Finish(t, call[t], "AccessDenied")
    /\ UNCHANGED <<actorVars, netVars, proofsFor, calls, focus>>
    /\ hv' = NoHv

\* sequence_set_owner, entry (line 578 is get_sequence)
StartSetOwner(t) ==
    \E a \in {focus}, k \in Keys :
        /\ cache[a].owners_index < MaxIdx
        /\ netSeq[a].owners_index < MaxIdx
        /\ Begin(t, [SeqCall("sequence_set_owner", a) EXCEPT !.owner = k], "gs_lookup")
        /\ UNCHANGED <<actorVars, netVars, cache, proofsFor>>

\* sequence_set_owner that sends the new owner without the cache put of lines 592-596
OwnCheck_NoCachePut(t) ==
    /\ pc[t] = "own_check"
    /\ IF CheckPermission(call[t].sequence, "ManagePermissions", Self)
       THEN Goto(t, [call[t] EXCEPT !.sequence = SeqSetOwner(@, call[t].owner)],
                 "wp_transfer")
       ELSE Finish(t, call[t], "AccessDenied")
    /\ UNCHANGED <<actorVars, netVars, cache, proofsFor, calls, focus>>
    /\ hv' = NoHv

\* sequence_set_owner lines 583-599
OwnCheck(t) ==
    /\ pc[t] = "own_check"
    /\ IF CheckPermission(call[t].sequence, "ManagePermissions", Self)
       THEN LET s == SeqSetOwner(call[t].sequence, call[t].owner) IN
            /\ cache' = CachePut(call[t].addr, s)
            /\ Goto(t, [call[t] EXCEPT !.sequence = s], "wp_transfer")
       ELSE /\ UNCHANGED cache
            /\ Finish(t, call[t], "AccessDenied")
    /\ UNCHANGED <<actorVars, netVars, proofsFor, calls, focus>>
    /\ hv' = NoHv

\* sequence_set_private_permissions / sequence_set_pub_permissions, entry
StartSetPerms(t) ==
    \E a \in {focus}, p \in PermSets :
        /\ cache[a].permissions_index < MaxIdx
        /\ netSeq[a].permissions_index < MaxIdx
        /\ Begin(t, [SeqCall(IF IsPrivate(a) THEN "sequence_set_private_permissions"
                                             ELSE "sequence_set_pub_permissions", a)
                        EXCEPT !.perms = p],
                 "gs_lookup")
        /\ UNCHANGED <<actorVars, netVars, cache, proofsFor>>

\* sequence_set_*_permissions that puts the new permissions in the cache before the
\* permission check
PermCheck_PutBeforeCheck(t) ==
    /\ pc[t] = "perm_check"
    /\ LET s == SeqSetPerms(call[t].sequence, call[t].perms) IN
       /\ cache' = CachePut(call[t].addr, s)
       /\ IF CheckPermission(call[t].sequence, "ManagePermissions", Self)
          THEN Goto(t, [call[t] EXCEPT !.sequence = s], "wp_transfer")
          ELSE Finish(t, call[t], "AccessDenied")
    /\ UNCHANGED <<actorVars, netVars, proofsFor, calls, focus>>
    /\ hv' = NoHv

\* sequence_set_*_permissions that sends the new permissions without the cache put
\* of lines 771-775, 738-742
PermCheck_NoCachePut(t) ==
    /\ pc[t] = "perm_check"
    /\ IF CheckPermission(call[t].sequence, "ManagePermissions", Self)
       THEN Goto(t, [call[t] EXCEPT !.sequence = SeqSetPerms(@, call[t].perms)],
                 "wp_transfer")
       ELSE Finish(t, call[t], "AccessDenied")
    /\ UNCHANGED <<actorVars, netVars, cache, proofsFor, calls, focus>>
    /\ hv' = NoHv

\* sequence_set_private_permissions lines 762-778, sequence_set_pub_permissions 729-745
PermCheck(t) ==
    /\ pc[t] = "perm_check"
    /\ IF CheckPermission(call[t].sequence, "ManagePermissions", Self)
       THEN LET s == SeqSetPerms(call[t].sequence, call[t].perms) IN
            /\ cache' = CachePut(call[t].addr, s)
            /\ Goto(t, [call[t] EXCEPT !.sequence = s], "wp_transfer")
       ELSE /\ UNCHANGED cache
            /\ Finish(t, call[t], "AccessDenied")
    /\ UNCHANGED <<actorVars, netVars, proofsFor, calls, focus>>
    /\ hv' = NoHv

\* a write that goes on to pay although the actor built no transfer
WpTransfer_IgnoresError(t) ==
    /\ pc[t] = "wp_transfer"
    /\ LET c == [call[t] EXCEPT !.chk = [reached |-> TRUE, balance |-> balance,
                                         pending |-> initiated # {}]]
       IN Goto(t, [c EXCEPT !.st = [amount |-> WritePrice, to |-> Section,
                                    counter |-> debitCounter]], "wp_initiate")
    /\ UNCHANGED <<actorVars, netVars, cache, proofsFor, calls, focus>>
    /\ hv' = NoHv

\* create_write_payment_proof: a transfer of the write price to the section
WpTransfer(t) ==
    /\ pc[t] = "wp_transfer"
    /\ LET r == ActorTransfer(WritePrice, Section)
           c == [call[t] EXCEPT !.chk = [reached |-> TRUE, balance |-> balance,
                                         pending |-> initiated # {}]]
       IN IF r.ok
          THEN Goto(t, [c EXCEPT !.st = r.st], "wp_initiate")
          ELSE Finish(t, c, r.err)
    /\ UNCHANGED <<actorVars, netVars, cache, proofsFor, calls, focus>>
    /\ hv' = NoHv

\* create_write_payment_proof: the transfer is marked initiated, then validated
WpInitiate(t) ==
    /\ pc[t] = "wp_initiate"
    /\ initiated' = initiated \cup {call[t].st}
    /\ Goto(t, call[t], "av_send")
    /\ UNCHANGED <<balance, debitCounter, shares, emitted, netVars, cache,
                   proofsFor, calls, focus>>
    /\ hv' = NoHv

\* a write that returns Ok(()) once the command is sent, without
\* apply_write_payment_to_local_actor
WSend_NoLocalApply(t) ==
    /\ pc[t] = "w_send"
    /\ \E ok \in BOOLEAN :
        LET m == wrap_seq_write(CmdKind(call[t].op), call[t].proof)
            c == [call[t] EXCEPT !.sends = Append(@, m)]
        IN IF ok
           THEN /\ netBalance' = NetDebit(m.payment)
                /\ netCounter' = NetCount(m.payment)
                /\ netSeq' = NetData(m.kind, c.addr, c, m.payment)
                /\ Finish(t, c, "Ok")
           ELSE /\ UNCHANGED <<netBalance, netCounter, netSeq>>
                /\ Finish(t, c, "NetworkError")
    /\ UNCHANGED <<actorVars, netAccepted, cache, proofsFor, calls, focus>>
    /\ hv' = NoHv

\* a write that returns an error, without apply_write_payment_to_local_actor, when
\* the network did not apply the mutation it was sent
WSend_ErrorOnReject(t) ==
    /\ pc[t] = "w_send"
    /\ \E ok \in BOOLEAN :
        LET m == wrap_seq_write(CmdKind(call[t].op), call[t].proof)
            c == [call[t] EXCEPT !.sends = Append(@, m)]
        IN IF ok
           THEN /\ netBalance' = NetDebit(m.payment)
                /\ netCounter' = NetCount(m.payment)
                /\ netSeq' = NetData(m.kind, c.addr, c, m.payment)
                /\ IF netSeq' = netSeq THEN Finish(t, c, "AccessDenied")
                   ELSE Goto(t, c, "w_apply")
           ELSE /\ UNCHANGED <<netBalance, netCounter, netSeq>>
                /\ Finish(t, c, "NetworkError")
    /\ UNCHANGED <<actorVars, netAccepted, cache, proofsFor, calls, focus>>
    /\ hv' = NoHv

\* the send_cmd of delete_sequence (213-215), pay_and_write_append_to_sequence_to_network
\* (293-295), pay_and_write_sequence_to_network (314-316), set_sequence_owner (546-548),
\* edit_sequence_private_perms (620-625), edit_sequence_public_perms (644-649)
WSend(t) ==
    /\ pc[t] = "w_send"
    /\ \E ok \in BOOLEAN :
        LET m == wrap_seq_write(CmdKind(call[t].op), call[t].proof)
            c == [call[t] EXCEPT !.sends = Append(@, m)]
        IN IF ok
           THEN /\ netBalance' = NetDebit(m.payment)
                /\ netCounter' = NetCount(m.payment)
                /\ netSeq' = NetData(m.kind, c.addr, c, m.payment)
                /\ Goto(t, c, "w_apply")
           ELSE /\ UNCHANGED <<netBalance, netCounter, netSeq>>
                /\ Finish(t, c, "NetworkError")
    /\ UNCHANGED <<actorVars, netAccepted, cache, proofsFor, calls, focus>>
    /\ hv' = NoHv

IsStore(op) == op \in {"store_private_sequence", "store_public_sequence"}

\* apply_write_payment_to_local_actor(payment_proof), the last step of every write
WApply(t) ==
    /\ pc[t] = "w_apply"
    /\ IF ActorRegister(call[t].proof)
       THEN /\ SetActor(ApplyRegistrationSent(Actor, call[t].proof))
            /\ IF IsStore(call[t].op) THEN Goto(t, call[t], "store_put")
               ELSE Finish(t, call[t], "Ok")
       ELSE /\ UNCHANGED actorVars
            /\ Finish(t, call[t], "RegisterError")
    /\ UNCHANGED <<netVars, cache, proofsFor, calls, focus>>
    /\ hv' = NoHv

\* a read accessor starts: reads are counted apart from the other calls
ReadBegin(t, c, first) ==
    /\ pc[t] \in {"idle", "done"}
    /\ reads < MaxReads
    /\ reads' = reads + 1
    /\ UNCHANGED <<calls, hist, focus>>
    /\ call' = [call EXCEPT ![t] = [c EXCEPT !.pre = Snapshot(c.to, c.addr)]]
    /\ pc' = [pc EXCEPT ![t] = first]
    /\ hv' = NoHv

Indices == [from : {"start", "end"}, i : 0..MaxEntries]

\* get_sequence_range(address, range), entry (line 490 is get_sequence)
StartGetRange(t) ==
    \E a \in {focus}, start \in Indices, end \in Indices :
        /\ ReadBegin(t, [SeqCall("get_sequence_range", a) EXCEPT !.range = <<start, end>>],
                     "gs_lookup")
        /\ UNCHANGED <<actorVars, netVars, cache, proofsFor>>

\* get_sequence_range that answers an empty list where in_range gives nothing
GrRead_EmptyOnNone(t) ==
    /\ pc[t] = "range_read"
    /\ LET r == InRange(call[t].sequence, call[t].range[1], call[t].range[2]) IN
       Finish(t, [call[t] EXCEPT !.value = r.entries], "Ok")
    /\ UNCHANGED <<actorVars, netVars, cache, proofsFor, calls, focus>>
    /\ hv' = NoHv

\* get_sequence_range lines 491-493: in_range on the resolved sequence, or NoSuchEntry
GrRead(t) ==
    /\ pc[t] = "range_read"
    /\ LET r == InRange(call[t].sequence, call[t].range[1], call[t].range[2]) IN
       IF r.some THEN Finish(t, [call[t] EXCEPT !.value = r.entries], "Ok")
       ELSE Finish(t, call[t], "NoSuchEntry")
    /\ UNCHANGED <<actorVars, netVars, cache, proofsFor, calls, focus>>
    /\ hv' = NoHv

\* get_sequence_last_entry(address), entry (line 434 is get_sequence)
StartGetLastEntry(t) ==
    \E a \in {focus} :
        /\ ReadBegin(t, SeqCall("get_sequence_last_entry", a), "gs_lookup")
        /\ UNCHANGED <<actorVars, netVars, cache, proofsFor>>

\* get_sequence_last_entry that pairs the entry with entries_index()
LeRead_IndexNotLowered(t) ==
    /\ pc[t] = "last_read"
    /\ LET r == LastEntry(call[t].sequence) IN
       IF r.some
       THEN Finish(t, [call[t] EXCEPT !.value = <<EntriesIndex(call[t].sequence), r.entry>>],
                   "Ok")
       ELSE Finish(t, call[t], "NoSuchEntry")
    /\ UNCHANGED <<actorVars, netVars, cache, proofsFor, calls, focus>>
    /\ hv' = NoHv

\* get_sequence_last_entry lines 435-438: (entries_index() - 1, entry), or NoSuchEntry
LeRead(t) ==
    /\ pc[t] = "last_read"
    /\ LET r == LastEntry(call[t].sequence) IN
       IF r.some
       THEN Finish(t, [call[t] EXCEPT
                          !.value = <<EntriesIndex(call[t].sequence) - 1, r.entry>>],
                   "Ok")
       ELSE Finish(t, call[t], "NoSuchEntry")
    /\ UNCHANGED <<actorVars, netVars, cache, proofsFor, calls, focus>>
    /\ hv' = NoHv

\* get_sequence_owner(address), entry (line 562 is get_sequence)
StartGetOwner(t) ==
    \E a \in {focus} :
        /\ ReadBegin(t, SeqCall("get_sequence_owner", a), "gs_lookup")
        /\ UNCHANGED <<actorVars, netVars, cache, proofsFor>>

\* get_sequence_owner lines 563-567: the owner at owners_index() - 1
GoRead(t) ==
    /\ pc[t] = "owner_read"
    /\ \E i \in Sub1(call[t].sequence.owners_index) :
        LET c == [call[t] EXCEPT !.idx = i.index]
            r == OwnerAt(call[t].sequence, i.index)
        IN IF i.panic THEN Panic(t, call[t])
           ELSE IF r.some THEN Finish(t, [c EXCEPT !.value = <<r.owner>>], "Ok")
           ELSE Finish(t, c, "Unexpected")
    /\ UNCHANGED <<actorVars, netVars, cache, proofsFor, calls, focus>>
    /\ hv' = NoHv

\* get_sequence_private_permissions / get_sequence_pub_permissions, entry (lines
\* 686, 666 are get_sequence)
StartGetPerms(t) ==
    \E a \in {focus}, op \in {"get_sequence_private_permissions",
                               "get_sequence_pub_permissions"} :
        /\ ReadBegin(t, SeqCall(op, a), "gs_lookup")
        /\ UNCHANGED <<actorVars, netVars, cache, proofsFor>>

\* get_sequence_private_permissions lines 687-691, get_sequence_pub_permissions
\* 667-671: the permissions at permissions_index() - 1
GpRead(t) ==
    /\ pc[t] = "perms_read"
    /\ \E i \in Sub1(call[t].sequence.permissions_index) :
        LET c == [call[t] EXCEPT !.idx = i.index]
            r == PermissionsAt(call[t].sequence,
                               call[t].op = "get_sequence_private_permissions",
                               i.index)
        IN IF i.panic THEN Panic(t, call[t])
           ELSE IF r.ok THEN Finish(t, [c EXCEPT !.value = <<r.perms>>], "Ok")
           ELSE Finish(t, c, r.err)
    /\ UNCHANGED <<actorVars, netVars, cache, proofsFor, calls, focus>>
    /\ hv' = NoHv

store_sequence(t) == StartStore(t) \/ StorePut(t)
get_sequence_owner(t) == StartGetOwner(t) \/ GoRead(t)
get_sequence_permissions(t) == StartGetPerms(t) \/ GpRead(t)
get_sequence_range(t) == StartGetRange(t) \/ GrRead(t)
get_sequence_last_entry(t) == StartGetLastEntry(t) \/ LeRead(t)
get_sequence(t) == StartGetSequence(t) \/ GsLookup(t) \/ GsFetch(t)
append_to_sequence(t) == StartAppend(t) \/ AppCheck(t)
sequence_set_owner(t) == StartSetOwner(t) \/ OwnCheck(t)
sequence_set_permissions(t) == StartSetPerms(t) \/ PermCheck(t)
pay_and_write(t) == WpTransfer(t) \/ WpInitiate(t) \/ WSend(t) \/ WApply(t)

(***************************************************************************)
(* Specifications                                                          *)
(***************************************************************************)
\* what the network can hold at the address when the client is constructed: nothing,
\* or a sequence stored earlier (by this identity or by another one)
Stored ==
    {NoSeq} \cup {NewSequence(IsPrivate(focus), o[1], o[2]) :
                     o \in {<<"A", {}>>, <<"B", {}>>, <<"B", {"Append"}>>}}

\* the client after construction: the actor and the network agree, nothing cached
Constructed ==
    /\ balance = InitBalance
    /\ debitCounter = 0
    /\ initiated = {}
    /\ shares = {}
    /\ emitted = {}
    /\ netBalance = [k \in {Self, Section} \cup Recipients |->
                        IF k = Self THEN InitBalance ELSE 0]
    /\ netCounter = 0
    /\ netAccepted = {}
    /\ cache = [a \in Addresses |-> NoSeq]
    /\ pc = [t \in Tasks |-> "idle"]
    /\ call = [t \in Tasks |-> IdleCall]
    /\ hv = NoHv
    /\ proofsFor = {}
    /\ calls = 0
    /\ reads = 0
    /\ hist = <<>>

Init ==
    /\ focus \in Addresses
    /\ netSeq \in {[a \in Addresses |-> IF a = focus THEN s ELSE NoSeq] : s \in Stored}
    /\ Constructed

Step(t) ==
    \/ send_money(t)
    \/ await_validation(t)
    \/ store_sequence(t)
    \/ StartDelete(t)
    \/ get_sequence(t)
    \/ append_to_sequence(t)
    \/ sequence_set_owner(t)
    \/ sequence_set_permissions(t)
    \/ pay_and_write(t)

\* one task: calls follow each other
Next == Step("t1")

Spec == Init /\ [][Next]_vars

\* two tasks share the client (and so its actor) and send money concurrently;
\* no sequence is involved
InitConc ==
    /\ focus = "priv"
    /\ netSeq = [a \in Addresses |-> NoSeq]
    /\ Constructed

NextConc == \E t \in Tasks : send_money(t) \/ await_validation(t)

SpecConc == InitConc /\ [][NextConc]_vars

\* one task appends to a sequence that was just created, empty and owned by the
\* caller, and reads it back
InitRead ==
    /\ focus \in Addresses
    /\ netSeq = [a \in Addresses |-> IF a = focus THEN NewSequence(IsPrivate(a), Self, {})
                                       ELSE NoSeq]
    /\ Constructed

NextRead ==
    \/ append_to_sequence("t1")
    \/ pay_and_write("t1")
    \/ await_validation("t1")
    \/ GsLookup("t1")
    \/ GsFetch("t1")
    \/ get_sequence_range("t1")
    \/ get_sequence_last_entry("t1")

SpecRead == InitRead /\ [][NextRead]_vars

\* one task changes owner and permissions of a sequence it created, and reads them
\* back
NextFacets ==
    \/ sequence_set_owner("t1")
    \/ sequence_set_permissions("t1")
    \/ pay_and_write("t1")
    \/ await_validation("t1")
    \/ GsLookup("t1")
    \/ GsFetch("t1")
    \/ get_sequence_owner("t1")
    \/ get_sequence_permissions("t1")

SpecFacets == InitRead /\ [][NextFacets]_vars

\* another client of the network appends to the stored sequence; nothing is
\* pushed to this client
RemoteAppend ==
    /\ netSeq[focus].present
    /\ Len(netSeq[focus].entries) < MaxEntries
    /\ \E e \in Values : netSeq' = [netSeq EXCEPT ![focus] = SeqAppend(@, e)]
    /\ UNCHANGED <<actorVars, netBalance, netCounter, netAccepted, cache, pc, call,
                   proofsFor, calls, focus, reads, hist>>
    /\ hv' = NoHv

\* one task reads a sequence while the network's copy changes under it
NextStale ==
    \/ get_sequence("t1")
    \/ get_sequence_last_entry("t1")
    \/ get_sequence_owner("t1")
    \/ get_sequence_permissions("t1")
    \/ RemoteAppend

SpecStale == InitRead /\ [][NextStale]_vars

\* two tasks share the client (its actor and its cache) and append concurrently to
\* the one private sequence, just created, empty and owned by the caller
InitAppend ==
    /\ focus = "priv"
    /\ netSeq = [a \in Addresses |-> IF a = focus THEN NewSequence(TRUE, Self, {})
                                       ELSE NoSeq]
    /\ Constructed

NextAppend ==
    \E t \in Tasks :
        \/ append_to_sequence(t)
        \/ GsLookup(t)
        \/ GsFetch(t)
        \/ pay_and_write(t)
        \/ await_validation(t)

SpecAppend == InitAppend /\ [][NextAppend]_vars

\* the network holds at the address a sequence this client stored, or one that
\* another client created and sent as it was built (Sequence::new_private /
\* new_pub), with no owner and no permissions set: both indices are 0
Bare(private) == [NoSeq EXCEPT !.present = TRUE, !.private = private]

InitBare ==
    /\ focus \in Addresses
    /\ netSeq \in {[a \in Addresses |-> IF a = focus THEN s ELSE NoSeq] :
                      s \in {NewSequence(IsPrivate(focus), Self, {}), Bare(IsPrivate(focus))}}
    /\ Constructed

SpecBare == InitBare /\ [][NextFacets]_vars

(***************************************************************************)
(* Properties                                                              *)
(***************************************************************************)
Done(t, op) == pc[t] = "done" /\ call[t].op = op

SentKinds(t) == {call[t].sends[i].kind : i \in DOMAIN call[t].sends}

\* the snapshot get_sequence resolved for a call: the cached one, else the fetched one
Resolved(t) == IF call[t].pre.cache.present THEN call[t].pre.cache ELSE call[t].pre.netSeq

\* C1: a send_money(to, amount) call that returned Ok lowered the sender's local
\* balance by exactly amount, raised the debit counter by exactly 1 and raised
\* the recipient's balance on the network by exactly amount.
C1_SendMoneyEffect ==
    \A t \in Tasks :
        Done(t, "send_money") /\ call[t].result = "Ok" =>
            /\ balance = call[t].pre.balance - call[t].amount
            /\ debitCounter = call[t].pre.counter + 1
            /\ netBalance[call[t].to] = call[t].pre.netTo + call[t].amount

C1_Witness ==
    \E t \in Tasks :
        Done(t, "send_money") /\ call[t].result = "Ok" /\ call[t].amount > 0

InFlight(t) == pc[t] \notin {"idle", "done"} /\ call[t].st # NoTransfer

C3_DistinctCounters ==
    \A t, u \in Tasks :
        t # u /\ InFlight(t) /\ InFlight(u) => call[t].st.counter # call[u].st.counter

\* C4: every data command a call sent carries the payment proof the call obtained
\* before: the proof is the one handle_validation_event returned for the call's
\* transfer, whose ValidateTransfer was sent earlier in the same call; a call
\* that obtained no proof sent no data command.
C4_PayBeforeWrite ==
    \A t \in Tasks :
        /\ \A i \in DOMAIN call[t].sends :
            call[t].sends[i].kind \in DataCmds =>
                /\ call[t].sends[i].payment # NoTransfer
                /\ call[t].sends[i].payment = call[t].proof
                /\ call[t].proof \in proofsFor
                /\ \E j \in 1..(i - 1) :
                    call[t].sends[j] = Msg("ValidateTransfer", call[t].proof)
        /\ call[t].proof = NoTransfer => SentKinds(t) \cap DataCmds = {}

C4_Witness ==
    \E t \in Tasks : Done(t, "delete_sequence") /\ "Delete" \in SentKinds(t)

\* C5: when an append, set-owner or set-permissions call fails, the cache entry of
\* its address does not contain the attempted mutation: it is the entry of before
\* the call, or the snapshot the call fetched on a cache miss.
Mutations == {"append_to_sequence", "sequence_set_owner",
              "sequence_set_private_permissions", "sequence_set_pub_permissions"}

C5_CacheOnlyAfterSuccess ==
    \A t \in Tasks :
        pc[t] = "done" /\ call[t].op \in Mutations /\ call[t].result # "Ok" =>
            cache[call[t].addr] \in {call[t].pre.cache, call[t].pre.netSeq}

\* C6: after a delete_sequence of a private sequence returned Ok and the network
\* removed the sequence, the cache holds no entry for the address, so that a
\* get_sequence finds it neither in the cache nor on the network (NoSuchData).
C6_DeleteRemovesCache ==
    \A t \in Tasks :
        /\ Done(t, "delete_sequence") /\ call[t].result = "Ok"
        /\ IsPrivate(call[t].addr)
        /\ call[t].pre.netSeq.present /\ ~netSeq[call[t].addr].present
        => ~cache[call[t].addr].present

\* C7: a delete_sequence on a public sequence leaves the sequence on the network
\* and the cache entry of its address as they were, whatever the call returns: a
\* get_sequence after it returns what a get_sequence before it returned.
C7_DeletePublicNoEffect ==
    \A t \in Tasks :
        Done(t, "delete_sequence") /\ ~IsPrivate(call[t].addr) =>
            /\ netSeq[call[t].addr] = call[t].pre.netSeq
            /\ cache[call[t].addr] = call[t].pre.cache

C7_Witness ==
    \E t \in Tasks :
        /\ Done(t, "delete_sequence") /\ ~IsPrivate(call[t].addr)
        /\ call[t].result = "Ok"
        /\ "Delete" \in SentKinds(t)
        /\ call[t].pre.cache.present /\ call[t].pre.netSeq.present

\* C8 as stated: an append_to_sequence call rejected by the permission pre-check
\* made no network send at all, in every cache state.
C8_ZeroSends ==
    \A t \in Tasks :
        Done(t, "append_to_sequence") /\ call[t].result = "AccessDenied" =>
            call[t].sends = <<>>

\* C8 amended: an append_to_sequence call by an actor without the Append right on
\* the resolved snapshot is rejected by the pre-check before any payment or
\* command: with the address cached the call makes no network send; on a cache
\* miss its only send is the GetSequence query that resolves the address.
C8_NoSendBeyondFetch ==
    \A t \in Tasks :
        call[t].op = "append_to_sequence" =>
            /\ pc[t] = "done" /\ call[t].result = "AccessDenied" =>
                /\ ~CheckPermission(Resolved(t), "Append", Self)
                /\ call[t].sends = IF call[t].pre.cache.present THEN <<>>
                                   ELSE <<Msg("GetSequence", NoTransfer)>>
            /\ pc[t] \in {"wp_transfer", "wp_initiate", "av_send", "av_wait", "w_send",
                          "w_apply"} \/ call[t].chk.reached =>
                CheckPermission(Resolved(t), "Append", Self)

C8_Witness ==
    \E t \in Tasks :
        /\ Done(t, "append_to_sequence") /\ call[t].result = "AccessDenied"
        /\ call[t].pre.cache.present
        /\ call[t].sends = <<>>

\* C9: a handle_validation_event call on a share of a validator whose share for
\* that transfer is already recorded returns Ok(None), not an error, and leaves
\* the actor as it was; the actor being the same, the shares still missing for
\* the proof are the same as if the duplicate had never arrived.
C9_DuplicateShareNoOp ==
    hv.called /\ hv.dup => hv.ret = "None" /\ hv.same

C9_Witness ==
    hv.called /\ hv.dup /\ ~hv.closed /\ hv.ret = "None"

\* C10: a handle_validation_event call on a share of a transfer for which an
\* earlier call returned the proof returns no proof and leaves the actor (balance
\* and debit counter included) as it was: one proof per transfer id.
C10_EmitOnce ==
    hv.called /\ hv.after => hv.ret # "Proof" /\ hv.same

C10_Witness ==
    hv.called /\ hv.after /\ hv.ret = "None"

\* C11: a send_money call that starts while an earlier transfer is marked
\* initiated and not registered resumes that transfer: the transfer it works on
\* is the initiated one, with the debit counter that one was signed with.
C11_ResumesInitiated ==
    \A t \in Tasks :
        /\ Done(t, "send_money") /\ call[t].chk.reached
        /\ call[t].pre.initiated # {}
        => /\ call[t].st \in call[t].pre.initiated
           /\ call[t].st.counter = call[t].pre.counter

\* one task sends money, call after call; a wait for validation shares ends
NextLive == send_money("t1") \/ await_validation("t1")

SpecLive == InitConc /\ [][NextLive]_vars /\ WF_vars(AvTimeout("t1"))

\* C12: the wait for a quorum of validation shares ends: a send_money call that
\* waits either gets its proof or returns; when it returns for lack of a quorum
\* the error is the validation timeout, the transfer is still marked initiated
\* and neither balance nor debit counter has moved.
C12_TimedOut ==
    \A t \in Tasks :
        Done(t, "send_money") /\ call[t].result = "ValidationTimeout" =>
            /\ call[t].st \in initiated
            /\ balance = call[t].pre.balance
            /\ debitCounter = call[t].pre.counter

Initiated(t) ==
    pc[t] \in {"av_send", "av_wait", "sm_register_send", "sm_register", "w_send", "w_apply"}

C13_OneInFlight ==
    \A t, u \in Tasks : t # u => ~(Initiated(t) /\ Initiated(u))

\* the values of the appends that returned, when every one of them returned Ok
AllOk == \A i \in DOMAIN hist : hist[i].ok

Appended == [i \in DOMAIN hist |-> hist[i].entry]

FromStart(i) == [from |-> "start", i |-> i]
FromEnd(i) == [from |-> "end", i |-> i]

\* C14: on a sequence created empty, after N append_to_sequence calls that all
\* returned Ok, a get_sequence_range over the full range (FromStart(0), FromEnd(0))
\* that resolved the sequence returns exactly the N appended values in append
\* order (N >= 1), and one that starts at index N fails with NoSuchEntry.
C14_RangeInAppendOrder ==
    \A t \in Tasks :
        Done(t, "get_sequence_range") /\ call[t].sequence.present /\ AllOk =>
            /\ call[t].range = <<FromStart(0), FromEnd(0)>> /\ hist # <<>> =>
                call[t].result = "Ok" /\ call[t].value = Appended
            /\ call[t].range[1] = FromStart(Len(hist)) =>
                call[t].result = "NoSuchEntry"

C14_Witness ==
    \E t \in Tasks :
        /\ Done(t, "get_sequence_range") /\ AllOk /\ Len(hist) = 2
        /\ hist[1].entry # hist[2].entry
        /\ call[t].range = <<FromStart(0), FromEnd(0)>>
        /\ call[t].result = "Ok" /\ call[t].value = Appended

\* C15: on a sequence created empty, after k >= 1 append_to_sequence calls that all
\* returned Ok, get_sequence_last_entry returns (k - 1, the value appended last);
\* with no entry appended it fails with NoSuchEntry.
C15_LastEntry ==
    \A t \in Tasks :
        Done(t, "get_sequence_last_entry") /\ call[t].sequence.present /\ AllOk =>
            IF hist = <<>> THEN call[t].result = "NoSuchEntry"
            ELSE /\ call[t].result = "Ok"
                 /\ call[t].value = <<Len(hist) - 1, hist[Len(hist)].entry>>

C15_Witness ==
    \E t \in Tasks :
        /\ Done(t, "get_sequence_last_entry") /\ AllOk /\ Len(hist) = 2
        /\ call[t].result = "Ok"
        /\ call[t].value = <<1, hist[2].entry>>

\* C16: a sequence stored by store_private_sequence / store_public_sequence
\* without initial entries has, from the moment the call starts paying and so in
\* the New command it sends, permissions index 1, owners index 1, no entries, the
\* flavor of the call and the owner and permissions asked for; after an Ok store
\* the cache holds that snapshot, the network holds it when the address was free,
\* and a get_sequence that finds the address cached returns the cached snapshot.
C16_StoredSnapshot ==
    \A t \in Tasks :
        /\ IsStore(call[t].op) =>
            /\ call[t].sequence.permissions_index = 1
            /\ call[t].sequence.owners_index = 1
            /\ call[t].sequence.entries = <<>>
            /\ call[t].sequence.private = (call[t].op = "store_private_sequence")
            /\ call[t].sequence.owner = call[t].owner
            /\ call[t].sequence.perms = call[t].perms
            /\ pc[t] = "done" /\ call[t].result = "Ok" =>
                /\ cache[call[t].addr] = call[t].sequence
                /\ "New" \in SentKinds(t)
                /\ ~call[t].pre.netSeq.present => netSeq[call[t].addr] = call[t].sequence
        /\ Done(t, "get_sequence") /\ call[t].pre.cache.present =>
            call[t].result = "Ok" /\ call[t].sequence = call[t].pre.cache

C16_Witness ==
    \E t \in Tasks :
        /\ pc[t] = "done" /\ IsStore(call[t].op) /\ call[t].result = "Ok"
        /\ netSeq[call[t].addr] = call[t].sequence
        /\ cache[call[t].addr].owners_index = 1

\* the calls that write a sequence
Writes ==
    {"store_private_sequence", "store_public_sequence", "append_to_sequence",
     "delete_sequence", "sequence_set_owner", "sequence_set_private_permissions",
     "sequence_set_pub_permissions"}

\* C17: every write call that returns Ok - create, append, delete, set-owner,
\* set-permissions - has lowered the caller's balance by the one write price,
\* locally and on the network; after an Ok delete_sequence the balance is
\* strictly lower than before it.
C17_WritePrice ==
    \A t \in Tasks :
        pc[t] = "done" /\ call[t].op \in Writes /\ call[t].result = "Ok" =>
            /\ balance = call[t].pre.balance - WritePrice
            /\ netBalance[Self] = call[t].pre.netSelf - WritePrice
            /\ call[t].op = "delete_sequence" => balance < call[t].pre.balance

C17_Witness ==
    \E t \in Tasks :
        /\ Done(t, "delete_sequence") /\ call[t].result = "Ok"
        /\ balance < call[t].pre.balance

C20_BalancesAgree ==
    (\A t \in Tasks : pc[t] \in {"idle", "done"}) =>
        get_local_balance = get_balance_from_network

C20_Witness ==
    /\ \A t \in Tasks : pc[t] \in {"idle", "done"}
    /\ \E t \in Tasks : pc[t] = "done" /\ call[t].result \notin {"Ok", "none"}
    /\ get_local_balance < InitBalance
    /\ get_local_balance = get_balance_from_network

\* C21: a get_sequence call that misses the cache and gets no sequence from the
\* network - the address is not stored (NoSuchData), the query fails in transport
\* (NetworkError) or the response is of another type (ReceivedUnexpectedEvent) -
\* returns that error after its one query, and the cache holds no entry for the
\* address afterwards; when the network does not hold the address the call cannot
\* return Ok.
FetchErrors == {"NoSuchData", "NetworkError", "ReceivedUnexpectedEvent"}

C21_MissAndError ==
    \A t \in Tasks :
        Done(t, "get_sequence") /\ ~call[t].pre.cache.present =>
            /\ call[t].sends = <<Msg("GetSequence", NoTransfer)>>
            /\ call[t].result \in FetchErrors \cup {"Ok"}
            /\ ~call[t].pre.netSeq.present => call[t].result \in FetchErrors
            /\ call[t].result = "NoSuchData" => ~call[t].pre.netSeq.present
            /\ call[t].result \in FetchErrors => ~cache[call[t].addr].present

C21_Witness ==
    \E t \in Tasks :
        /\ Done(t, "get_sequence") /\ call[t].result = "ReceivedUnexpectedEvent"
        /\ call[t].pre.netSeq.present
        /\ ~cache[call[t].addr].present

\* the network holds, at the address of a write call, what the call's mutation
\* makes of what it held when the call started
Applied(t) ==
    LET c == call[t]
        was == c.pre.netSeq
        now == netSeq[c.addr]
    IN CASE IsStore(c.op) -> ~was.present /\ now = c.sequence
         [] c.op = "delete_sequence" -> was.present /\ ~now.present
         [] c.op = "append_to_sequence" -> was.present /\ now = SeqAppend(was, c.entry)
         [] c.op = "sequence_set_owner" -> was.present /\ now = SeqSetOwner(was, c.owner)
         [] OTHER -> was.present /\ now = SeqSetPerms(was, c.perms)

\* C22: a write call returns Ok only when the network applied its mutation; when
\* the network rejects the mutation (the delete of a public sequence, for one) the
\* call returns an error.
C22_RejectionSurfaced ==
    \A t \in Tasks :
        pc[t] = "done" /\ call[t].op \in Writes /\ call[t].result = "Ok" => Applied(t)

\* the latest append / set-owner / set-permissions call that has returned
Last == hist[Len(hist)]

SetPerms == {"sequence_set_private_permissions", "sequence_set_pub_permissions"}

\* C23: after a sequence_set_private_permissions / sequence_set_pub_permissions
\* (address, P) call returned Ok, the snapshot of the address has P as permission
\* set, a permissions index one above that of the snapshot the call resolved,
\* and the entries, owner and owners index of that snapshot; the permission
\* getter of the sequence's flavor, called next, returns P.
C23_PermissionsSet ==
    \A t \in Tasks :
        /\ pc[t] = "done" /\ call[t].op \in SetPerms /\ call[t].result = "Ok" =>
            /\ cache[call[t].addr].perms = call[t].perms
            /\ cache[call[t].addr].permissions_index = Resolved(t).permissions_index + 1
            /\ cache[call[t].addr].entries = Resolved(t).entries
            /\ cache[call[t].addr].owner = Resolved(t).owner
            /\ cache[call[t].addr].owners_index = Resolved(t).owners_index
        /\ /\ pc[t] = "done"
           /\ call[t].op = IF IsPrivate(call[t].addr) THEN "get_sequence_private_permissions"
                                                      ELSE "get_sequence_pub_permissions"
           /\ hist # <<>> /\ Last.op \in SetPerms /\ Last.ok
           => call[t].result = "Ok" /\ call[t].value = <<Last.perms>>

C23_Witness ==
    \E t \in Tasks :
        /\ Done(t, "get_sequence_private_permissions") /\ call[t].result = "Ok"
        /\ hist # <<>> /\ Last.op \in SetPerms /\ Last.ok
        /\ Last.perms = {"Append"}
        /\ call[t].value = <<Last.perms>>
        /\ call[t].sequence.permissions_index = 2

\* C24: after a sequence_set_owner(address, K) call returned Ok - the caller held
\* ManagePermissions on the snapshot it resolved - the snapshot of the address has
\* owner K, an owners index one above that of the resolved snapshot, and the
\* entries, permissions and permissions index of that snapshot;
\* get_sequence_owner, called next, returns K.
C24_OwnerSet ==
    \A t \in Tasks :
        /\ Done(t, "sequence_set_owner") /\ call[t].result = "Ok" =>
            /\ CheckPermission(Resolved(t), "ManagePermissions", Self)
            /\ cache[call[t].addr].owner = call[t].owner
            /\ cache[call[t].addr].owners_index = Resolved(t).owners_index + 1
            /\ cache[call[t].addr].entries = Resolved(t).entries
            /\ cache[call[t].addr].perms = Resolved(t).perms
            /\ cache[call[t].addr].permissions_index = Resolved(t).permissions_index
        /\ /\ Done(t, "get_sequence_owner")
           /\ hist # <<>> /\ Last.op = "sequence_set_owner" /\ Last.ok
           => call[t].result = "Ok" /\ call[t].value = <<Last.owner>>

C24_Witness ==
    \E t \in Tasks :
        /\ Done(t, "get_sequence_owner") /\ call[t].result = "Ok"
        /\ hist # <<>> /\ Last.op = "sequence_set_owner" /\ Last.ok
        /\ Last.owner # Self
        /\ call[t].value = <<Last.owner>>
        /\ call[t].sequence.owners_index = 2

\* C25: a handle_validation_event call on a share of a transfer the actor does not
\* hold as initiated (never initiated, or registered since) or has already
\* produced the proof of returns Ok(None), not an error, and leaves the actor as
\* it was.
C25_ClosedTransferShare ==
    hv.called /\ hv.closed => hv.ret = "None" /\ hv.same

C25_Witness ==
    /\ hv.called /\ hv.closed /\ ~hv.after /\ ~hv.dup
    /\ hv.ret = "None" /\ hv.same
    /\ initiated # {}

\* C26: the transfers of the identity are registered in the order of their debit
\* counters, without repeat and without gap: each step that registers a transfer,
\* in the actor (send_money lines 171-177, the last step of a write) or on the
\* network (RegisterTransfer, a paid command), registers the transfer whose
\* counter is the number of transfers registered there so far, and moves that
\* number up by exactly one; no other step changes it.
C26_CountersInOrder ==
    [][/\ debitCounter' # debitCounter =>
            /\ debitCounter' = debitCounter + 1
            /\ \E t \in Tasks : /\ pc[t] \in {"sm_register", "w_apply"}
                                /\ pc'[t] \in {"done", "store_put"}
                                /\ call[t].proof.counter = debitCounter
       /\ netCounter' # netCounter =>
            /\ netCounter' = netCounter + 1
            /\ \E t \in Tasks : /\ pc[t] \in {"sm_register_send", "w_send"}
                                /\ pc'[t] \in {"sm_register", "w_apply"}
                                /\ call[t].proof.counter = netCounter]_vars

C26_Witness ==
    /\ debitCounter = 2 /\ netCounter = 2
    /\ \E t \in Tasks : Done(t, "send_money") /\ call[t].proof.counter = 1

\* the snapshot a get_sequence(a) that starts now returns, once it is answered: the
\* cache entry of the address, or on a miss what the network holds
Readable(a) == IF cache[a].present THEN cache[a] ELSE netSeq[a]

\* C27: for every address, no step of a client operation lowers the entries,
\* owners or permissions index of the snapshot get_sequence returns, and the
\* entries it returned stay at their index with their value.
C27_IndicesNeverDecrease ==
    [][\A a \in Addresses :
          Readable(a).present /\ Readable(a)'.present =>
              /\ EntriesIndex(Readable(a)') >= EntriesIndex(Readable(a))
              /\ Readable(a)'.owners_index >= Readable(a).owners_index
              /\ Readable(a)'.permissions_index >= Readable(a).permissions_index
              /\ \A i \in DOMAIN Readable(a).entries :
                    Readable(a)'.entries[i] = Readable(a).entries[i]]_vars

\* the right the pre-check of a mutation asks for
Required(op) == IF op = "append_to_sequence" THEN "Append" ELSE "ManagePermissions"

\* C28: a call of a mutation other than create - append, delete, set-owner,
\* set-permissions - that has asked for its payment proof has resolved the
\* sequence through get_sequence before, and the caller holds the required right
\* on the resolved snapshot.
C28_ResolveBeforePay ==
    \A t \in Tasks :
        call[t].op \in Mutations \cup {"delete_sequence"} /\ call[t].chk.reached =>
            /\ call[t].sequence.present
            /\ CheckPermission(Resolved(t), Required(call[t].op), Self)

\* C29: an append, set-owner or set-permissions call whose caller lacks the
\* required right on the resolved snapshot returns AccessDenied, and such a call
\* has asked for no payment proof, sent no command (a cache miss costs the one
\* GetSequence query), left local balance, debit counter and initiated transfers
\* as they were, and left in the cache the resolved snapshot, without the
\* attempted mutation.
C29_DeniedHasNoEffect ==
    \A t \in Tasks :
        pc[t] = "done" /\ call[t].op \in Mutations =>
            /\ /\ call[t].sequence.present
               /\ ~CheckPermission(Resolved(t), Required(call[t].op), Self)
               => call[t].result = "AccessDenied"
            /\ call[t].result = "AccessDenied" =>
                /\ ~CheckPermission(Resolved(t), Required(call[t].op), Self)
                /\ ~call[t].chk.reached
                /\ call[t].st = NoTransfer /\ call[t].proof = NoTransfer
                /\ SentKinds(t) \subseteq {"GetSequence"}
                /\ balance = call[t].pre.balance
                /\ debitCounter = call[t].pre.counter
                /\ initiated = call[t].pre.initiated
                /\ cache[call[t].addr] = Resolved(t)

C29_Witness ==
    \E t \in Tasks :
        /\ pc[t] = "done" /\ call[t].op \in SetPerms \cup {"sequence_set_owner"}
        /\ call[t].result = "AccessDenied"
        /\ ~call[t].pre.cache.present
        /\ cache[call[t].addr] = call[t].pre.netSeq
        /\ balance = InitBalance

\* C30: in a send_money call the RegisterTransfer command carries the proof
\* handle_validation_event returned for the call's own transfer, whose
\* ValidateTransfer was sent before; up to and including the RegisterTransfer send
\* the local balance and debit counter are those of the start of the call; the
\* local registration is reached only when that send was delivered (the network
\* has registered the debit), and a call that changed balance or counter
\* returned Ok after it.
C30_RegisterAfterProof ==
    \A t \in Tasks :
        call[t].op = "send_money" =>
            /\ \A i \in DOMAIN call[t].sends :
                call[t].sends[i].kind = "RegisterTransfer" =>
                    /\ call[t].sends[i].payment # NoTransfer
                    /\ call[t].sends[i].payment = call[t].st
                    /\ call[t].sends[i].payment = call[t].proof
                    /\ call[t].proof \in proofsFor
                    /\ \E j \in 1..(i - 1) :
                        call[t].sends[j] = Msg("ValidateTransfer", call[t].st)
            /\ pc[t] \in {"sm_history", "sm_transfer", "sm_initiate", "av_send", "av_wait",
                          "sm_register_send", "sm_register"} =>
                /\ balance = call[t].pre.balance
                /\ debitCounter = call[t].pre.counter
            /\ pc[t] = "sm_register" =>
                /\ "RegisterTransfer" \in SentKinds(t)
                /\ netCounter = call[t].pre.counter + 1
            /\ pc[t] = "done" /\ (balance # call[t].pre.balance
                                   \/ debitCounter # call[t].pre.counter) =>
                /\ call[t].result = "Ok"
                /\ call[t].sends[Len(call[t].sends)].kind = "RegisterTransfer"
                /\ netCounter = debitCounter

C30_Witness ==
    \E t \in Tasks :
        /\ Done(t, "send_money") /\ call[t].result = "Ok"
        /\ call[t].sends = <<Msg("GetHistory", NoTransfer),
                             Msg("ValidateTransfer", call[t].st),
                             Msg("RegisterTransfer", call[t].st)>>
        /\ balance < call[t].pre.balance

\* C31: every step in which a send_money call broadcasts its ValidateTransfer is
\* taken with the call's transfer marked initiated in the actor.
C31_InitiatedBeforeBroadcast ==
    [][\A t \in Tasks :
          call[t].op = "send_money" /\ pc[t] = "av_send" /\ pc'[t] # "av_send" =>
              call[t].st \in initiated]_vars

\* C32: a send_money call that fails after its transfer was initiated (at the
\* broadcast, while waiting for the validation, or at the RegisterTransfer send)
\* returns the error; balance and debit counter are those from before the call,
\* the cache entry is untouched and the actor differs only in holding the call's
\* transfer as initiated.
C32_FailureKeepsBalance ==
    \A t \in Tasks :
        /\ Done(t, "send_money")
        /\ "ValidateTransfer" \in SentKinds(t)
        /\ call[t].result \notin {"Ok", "RegisterError"}
        => /\ call[t].result # "none"
           /\ balance = call[t].pre.balance
           /\ debitCounter = call[t].pre.counter
           /\ initiated = call[t].pre.initiated \cup {call[t].st}
           /\ cache[call[t].addr] = call[t].pre.cache
           /\ netBalance[Self] = call[t].pre.netSelf

C32_Witness ==
    \E t \in Tasks :
        /\ Done(t, "send_money")
        /\ call[t].result = "NetworkError"
        /\ "RegisterTransfer" \in SentKinds(t)
        /\ call[t].amount > 0
        /\ balance = call[t].pre.balance
        /\ call[t].st \in initiated

\* C33: a write call whose payment proof was obtained and whose data command
\* reached the network, but whose mutation the network did not apply, has still
\* paid: the local balance is lower by the write price and the debit counter is
\* one higher than before the call.
C33_RejectedStillPays ==
    \A t \in Tasks :
        /\ pc[t] = "done" /\ call[t].op \in Writes
        /\ call[t].proof # NoTransfer
        /\ netBalance[Self] = call[t].pre.netSelf - WritePrice
        /\ ~Applied(t)
        => /\ balance = call[t].pre.balance - WritePrice
           /\ debitCounter = call[t].pre.counter + 1

C33_Witness ==
    \E t \in Tasks :
        /\ Done(t, "delete_sequence")
        /\ call[t].proof # NoTransfer
        /\ netSeq[call[t].addr].present /\ ~netSeq[call[t].addr].private
        /\ netSeq[call[t].addr] = call[t].pre.netSeq
        /\ netBalance[Self] = call[t].pre.netSelf - WritePrice
        /\ balance = call[t].pre.balance - WritePrice
        /\ debitCounter = call[t].pre.counter + 1

\* C34: a create call (store_private_sequence, store_public_sequence) writes the
\* cache only after the payment, the send and the local registration of the
\* payment succeeded: until the call has returned Ok, and for good when it
\* returned an error, the cache holds for the address what it held before the
\* call - nothing, for a new address.
C34_CreateFailureLeavesCache ==
    \A t \in Tasks :
        /\ IsStore(call[t].op)
        /\ ~(pc[t] = "done" /\ call[t].result = "Ok")
        => /\ cache[call[t].addr] = call[t].pre.cache
           /\ pc[t] = "store_put" =>
                  /\ CmdKind(call[t].op) \in SentKinds(t)
                  /\ debitCounter = call[t].pre.counter + 1

C34_Witness ==
    \E t \in Tasks :
        /\ pc[t] = "done" /\ IsStore(call[t].op)
        /\ call[t].result = "NetworkError"
        /\ "New" \in SentKinds(t)
        /\ ~call[t].pre.cache.present
        /\ ~cache[call[t].addr].present

Reads == {"get_sequence", "get_sequence_range", "get_sequence_last_entry",
          "get_sequence_owner", "get_sequence_private_permissions",
          "get_sequence_pub_permissions"}

\* a call that found its address in the cache works on that entry, has sent
\* nothing to resolve it, and, when it is a read, has sent nothing at all and left
\* the entry in place
HitServedLocally ==
    \A t \in Tasks :
        /\ call[t].op \in Reads \cup Mutations
        /\ call[t].pre.cache.present
        /\ pc[t] # "gs_lookup"
        => /\ pc[t] # "gs_fetch"
           /\ "GetSequence" \notin SentKinds(t)
           /\ call[t].op \in Reads =>
                  /\ call[t].sequence = call[t].pre.cache
                  /\ call[t].sends = <<>>
                  /\ cache[call[t].addr] = call[t].pre.cache
                  /\ pc[t] = "done" => call[t].result \notin FetchErrors

\* C35: a call that finds its address in the cache is served from that entry
\* without a network query, whatever the network holds by then; and a step
\* changes the cache at an address only as the cache put of a local mutation
\* (create, append, set-owner, set-permissions) or as the put of a get_sequence
\* that had missed and fetched.
C35_CacheHitNoQuery ==
    /\ []HitServedLocally
    /\ [][\A a \in Addresses :
             cache'[a] # cache[a] =>
                 \E t \in Tasks :
                     /\ call[t].addr = a
                     /\ pc[t] \in {"gs_fetch", "app_check", "own_check", "perm_check",
                                   "store_put"}
                     /\ pc'[t] # pc[t]
                     /\ pc[t] = "gs_fetch" =>
                            ~call[t].pre.cache.present /\ cache'[a] = netSeq[a]]_vars

C35_Witness ==
    \E t \in Tasks :
        /\ Done(t, "get_sequence_last_entry") /\ call[t].result = "Ok"
        /\ call[t].pre.cache.present
        /\ Len(call[t].pre.netSeq.entries) > Len(call[t].pre.cache.entries)
        /\ call[t].sends = <<>>
        /\ call[t].value # <<>>
        /\ cache[call[t].addr] = call[t].pre.cache

\* two append_to_sequence calls of different entries to one address have both
\* returned Ok
BothAppended ==
    /\ \A t \in Tasks : Done(t, "append_to_sequence") /\ call[t].result = "Ok"
    /\ call["t1"].addr = call["t2"].addr
    /\ call["t1"].entry # call["t2"].entry

InEntries(s, e) == \E i \in DOMAIN s.entries : s.entries[i] = e

\* C36 as stated: after two concurrent append_to_sequence calls of different entries
\* to one address have both returned Ok, the cached snapshot contains both entries.
C36_BothAppendsCached ==
    BothAppended =>
        \A t \in Tasks : InEntries(cache[call[t].addr], call[t].entry)

\* C36 amended: after two concurrent append_to_sequence calls of different entries
\* to one address have both returned Ok, the cached snapshot is the one that one of
\* the two calls put - the snapshot that call had resolved with its own entry
\* appended. It ends with that call's entry; the other call's entry is in it only
\* if the other call's put came before this call's cache get.
C36_LastPutWins ==
    BothAppended =>
        \E t \in Tasks :
            /\ cache[call[t].addr] = call[t].sequence
            /\ LastEntry(cache[call[t].addr]).some
            /\ LastEntry(cache[call[t].addr]).entry = call[t].entry

C36_Witness ==
    /\ BothAppended
    /\ cache[call["t1"].addr] = call["t2"].sequence
    /\ ~InEntries(cache[call["t1"].addr], call["t1"].entry)
    /\ InEntries(netSeq[call["t1"].addr], call["t1"].entry)
    /\ InEntries(netSeq[call["t1"].addr], call["t2"].entry)

FacetReads == {"get_sequence_owner", "get_sequence_private_permissions",
               "get_sequence_pub_permissions"}

\* C37: an owner or permission accessor that resolved a sequence whose index of
\* that facet is 0 returns a typed error: the call does not panic and the index
\* it looked up did not wrap around.
C37_NoUnderflowNoPanic ==
    \A t \in Tasks :
        /\ call[t].op \in FacetReads
        /\ pc[t] \in {"done", "panicked"}
        /\ call[t].sequence.present
        /\ IF call[t].op = "get_sequence_owner" THEN call[t].sequence.owners_index = 0
           ELSE call[t].sequence.permissions_index = 0
        => /\ pc[t] = "done"
           /\ call[t].result \in {"Unexpected", "NoSuchEntry", "InvalidOperation"}
           /\ call[t].idx # WordMax

\* C38: in every state of every interleaving of send_money calls, successful or
\* failed, the local balance is not negative, and neither is the balance the
\* network holds for the identity.
C38_BalanceNeverNegative ==
    /\ balance >= 0
    /\ netBalance[Self] >= 0

C38_Witness ==
    /\ balance = 0
    /\ debitCounter = 2
    /\ \A t \in Tasks : Done(t, "send_money") /\ call[t].result = "Ok"
                           /\ call[t].amount > 0

\* the task holds a payment proof it has not yet registered with the actor
HoldsProof(t) == pc[t] \in {"sm_register_send", "sm_register", "w_send", "w_apply"}

\* C39: handle_validation_event receives a share and records it in one step on
\* the actor, with no other task's actor operation in between. So what the actor
\* holds always fits what the calls returned: a pending transfer never has more
\* than Quorum shares recorded, its proof has been produced once Quorum shares
\* are recorded, a call that returns a proof has recorded the share that completed
\* it, and no two tasks are handed the proof of the same transfer.
C39_ReceiveAndApplyInOneStep ==
    /\ \A st \in initiated :
           /\ Cardinality(SharesOf(st)) <= Quorum
           /\ Cardinality(SharesOf(st)) = Quorum => st \in emitted
    /\ \A t, u \in Tasks :
           t # u /\ HoldsProof(t) /\ HoldsProof(u) => call[t].proof # call[u].proof
    /\ hv.called /\ hv.ret = "Proof" => ~hv.same

C39_Witness ==
    \E t, u \in Tasks :
        /\ t # u
        /\ call[t].st = call[u].st /\ call[t].st # NoTransfer
        /\ pc[t] = "sm_register_send" /\ pc[u] = "av_wait"
        /\ hv.called /\ hv.ret = "Proof"
        /\ call[t].st \in emitted

====
